---- MODULE Spec2Model ----
(***************************************************************************)
(* Comic Storyboarder: the action handlers of the server object            *)
(* (createProject .. listPanels) over the three tables ComicProjects,      *)
(* ComicPages and ComicPanels.                                             *)
(*                                                                         *)
(* Spec      every handler runs to completion before the next one starts.  *)
(* ConcSpec  handlers of several requests interleave between their         *)
(*           awaited store statements.                                     *)
(***************************************************************************)
EXTENDS Integers, FiniteSets, Sequences, Bags, TLC

----------------------------------------------------------------------------
(* Bounds                                                                  *)

MaxProjects == 2
MaxPages == 2
MaxPanels == 2
MaxNow == 1
MaxSupplied == 1
MaxUpdates == 1
MaxRequests == 2

----------------------------------------------------------------------------
(* Values                                                                  *)

\* locals.user of the request context: a signed-in user, or none.
Users == {"u1", "u2"}
NoUser == "none"
Callers == Users \cup {NoUser}

\* An optional column that was not given a value.
Null == "null"

\* Ids are the strings crypto.randomUUID() returns: the n-th id handed to a
\* table is n.  An id a call supplies is one of them: the id of a row, of a row
\* since deleted, or (until the table has been handed them all) of no row yet.
ProjectIds == 1..MaxProjects
PageIds == 1..MaxPages
PanelIds == 1..MaxPanels

\* Columns an update may set, per table (the optional keys of the zod input).
ProjectFields == {"title", "description", "genre", "format", "targetAudience"}
PageFields == {"pageNumber", "title", "thumbnailUrl", "notes"}
PanelFields == {"panelIndex", "layoutJson", "description", "dialogue", "caption", "soundEffects"}

\* The value an input carries for a field: v is the text, n the number.
FieldValue(k, v, n) == IF k \in {"pageNumber", "panelIndex"} THEN n ELSE v

\* The families of supplied optional keys the inputs are drawn from: up to
\* MaxSupplied keys, or all of them.
Supplied(fields) ==
    {S \in SUBSET fields : Cardinality(S) <= MaxSupplied \/ S = fields}

\* Inputs that passed the zod schema: an input is a function from the keys
\* that are present (not undefined) to their values.
CreateProjectInputs ==
    {[k \in S \cup {"title"} |-> "a"] : S \in Supplied(ProjectFields \ {"title"})}
UpdateProjectInputs ==
    {[k \in S |-> "b"] : S \in Supplied(ProjectFields) \ {{}}}
CreatePageInputs ==
    {[k \in S \cup {"pageNumber"} |-> FieldValue(k, "a", 1)] :
        S \in Supplied(PageFields \ {"pageNumber"})}
UpdatePageInputs ==
    {[k \in S |-> FieldValue(k, "b", 2)] : S \in Supplied(PageFields) \ {{}}}
CreatePanelInputs ==
    {[k \in S \cup {"panelIndex"} |-> FieldValue(k, "a", 0)] :
        S \in Supplied(PanelFields \ {"panelIndex"})}
UpdatePanelInputs ==
    {[k \in S |-> FieldValue(k, "b", 0 - 1)] : S \in Supplied(PanelFields) \ {{}}}
\* The inputs that carry every key, and those that carry only key.
AllKeys(inputs) == {f \in inputs : \A g \in inputs : DOMAIN g \subseteq DOMAIN f}
Only(inputs, key) == {f \in inputs : DOMAIN f = {key}}

----------------------------------------------------------------------------
(* State                                                                   *)

VARIABLES
    projects,     \* rows of ComicProjects
    pages,        \* rows of ComicPages
    panels,       \* rows of ComicPanels
    nextId,       \* how many ids each table has been handed
    now,          \* what new Date() returns
    fkEnforced,   \* whether the store enforces the declared references
    updates,      \* how many updates have succeeded
    reqs          \* the bag of requests whose handler is at an await (ConcSpec)

vars == <<projects, pages, panels, nextId, now, fkEnforced, updates, reqs>>

----------------------------------------------------------------------------
(* Store statements                                                        *)

Opt(f, k) == IF k \in DOMAIN f THEN f[k] ELSE Null

\* Faulty variant of SetFields: every text column is written, the omitted ones as if
\* given undefined.
SetFieldsWritingOmitted(row, f) ==
    [k \in DOMAIN row |->
        IF k \in DOMAIN f THEN f[k]
        ELSE IF k \in {"title", "description", "genre", "format", "targetAudience",
                       "thumbnailUrl", "notes", "layoutJson", "dialogue", "caption",
                       "soundEffects"}
        THEN Null
        ELSE row[k]]

\* .set({...}) of the supplied keys on one row.
SetFields(row, f) == [k \in DOMAIN row |-> IF k \in DOMAIN f THEN f[k] ELSE row[k]]

ProjectRow(id, userId, f, t) ==
    [id |-> id, userId |-> userId, title |-> f["title"],
     description |-> Opt(f, "description"), genre |-> Opt(f, "genre"),
     format |-> Opt(f, "format"), targetAudience |-> Opt(f, "targetAudience"),
     createdAt |-> t, updatedAt |-> t]

PageRow(id, projectId, f, t) ==
    [id |-> id, projectId |-> projectId, pageNumber |-> f["pageNumber"],
     title |-> Opt(f, "title"), thumbnailUrl |-> Opt(f, "thumbnailUrl"),
     notes |-> Opt(f, "notes"), createdAt |-> t, updatedAt |-> t]

PanelRow(id, pageId, f, t) ==
    [id |-> id, pageId |-> pageId, panelIndex |-> f["panelIndex"],
     layoutJson |-> Opt(f, "layoutJson"), description |-> Opt(f, "description"),
     dialogue |-> Opt(f, "dialogue"), caption |-> Opt(f, "caption"),
     soundEffects |-> Opt(f, "soundEffects"), createdAt |-> t]

\* The references of the table definitions, when the store enforces them.
PageInsertAllowed(fk, ps, projectId) ==
    fk => \E p \in ps : p.id = projectId
PanelInsertAllowed(fk, pgs, pageId) ==
    fk => \E g \in pgs : g.id = pageId
PageDeleteAllowed(fk, pns, pageId) ==
    fk => ~ \E n \in pns : n.pageId = pageId

\* Faulty variant of SelectOwnedProject: the select without the userId condition.
SelectProjectById(ps, projectId, userId) == {p \in ps : p.id = projectId}

\* Faulty variant of SelectPageOfProject: the select without the projectId condition.
SelectPageById(pgs, pageId, projectId) == {g \in pgs : g.id = pageId}

\* Faulty variant of SelectProjectsOfUser: the select without its where.
SelectEveryProject(ps, userId) == ps

\* select().from(ComicProjects).where(id = projectId AND userId = userId)
SelectOwnedProject(ps, projectId, userId) ==
    {p \in ps : p.id = projectId /\ p.userId = userId}
\* select().from(ComicPages).where(id = pageId AND projectId = projectId)
SelectPageOfProject(pgs, pageId, projectId) ==
    {g \in pgs : g.id = pageId /\ g.projectId = projectId}
SelectProjectsOfUser(ps, userId) == {p \in ps : p.userId = userId}
SelectPagesOfProject(pgs, projectId) == {g \in pgs : g.projectId = projectId}
SelectPanelsOfPage(pns, pageId) == {n \in pns : n.pageId = pageId}
SelectPanelById(pns, id) == {n \in pns : n.id = id}

UpdateProjectById(ps, id, f, t) ==
    {IF p.id = id THEN SetFields(p, f @@ [updatedAt |-> t]) ELSE p : p \in ps}
UpdatePageById(pgs, id, f, t) ==
    {IF g.id = id THEN SetFields(g, f @@ [updatedAt |-> t]) ELSE g : g \in pgs}
UpdatePanelById(pns, id, f) ==
    {IF n.id = id THEN SetFields(n, f) ELSE n : n \in pns}

\* Faulty variant of DeletePanelsOfPage: the page's panels are left behind.
DeleteNoPanels(pns, pageId) == pns

DeletePageById(pgs, id) == {g \in pgs : g.id # id}
DeletePanelsOfPage(pns, pageId) == {n \in pns : n.pageId # pageId}
DeletePanelById(pns, id) == {n \in pns : n.id # id}
RowsAffected(before, after) == Cardinality(before) - Cardinality(after)

----------------------------------------------------------------------------
(* Guards of the handlers                                                  *)

\* What a guard ends in: Ok, or the ActionError it throws.
Ok == [code |-> "OK", message |-> ""]
Unauthorized ==
    [code |-> "UNAUTHORIZED", message |-> "You must be signed in to perform this action."]
ProjectNotFound == [code |-> "NOT_FOUND", message |-> "Project not found."]
PageNotFound == [code |-> "NOT_FOUND", message |-> "Page not found."]
PanelNotFound == [code |-> "NOT_FOUND", message |-> "Panel not found."]
\* What the caller gets when the store rejects a statement.
ConstraintFailed == [code |-> "INTERNAL_SERVER_ERROR", message |-> "constraint failed"]

\* Faulty variant of requireUser: the check of the user is missing.
requireNothing(user) == Ok

requireUser(user) == IF user = NoUser THEN Unauthorized ELSE Ok

getOwnedProject(ps, projectId, userId) ==
    IF SelectOwnedProject(ps, projectId, userId) = {} THEN ProjectNotFound ELSE Ok

\* Faulty variant of getOwnedPage: only the project is resolved.
getOwnedPageProjectOnly(ps, pgs, pageId, projectId, userId) ==
    IF SelectOwnedProject(ps, projectId, userId) = {} THEN ProjectNotFound ELSE Ok

\* getOwnedProject first, then the page under that project.
getOwnedPage(ps, pgs, pageId, projectId, userId) ==
    IF getOwnedProject(ps, projectId, userId) # Ok
    THEN getOwnedProject(ps, projectId, userId)
    ELSE IF SelectPageOfProject(pgs, pageId, projectId) = {} THEN PageNotFound ELSE Ok

\* What a handler's guards end in for a caller: the first error, or Ok.
GuardProject(ps, projectId, user) ==
    IF requireUser(user) # Ok THEN requireUser(user)
    ELSE getOwnedProject(ps, projectId, user)
GuardPage(ps, pgs, pageId, projectId, user) ==
    IF requireUser(user) # Ok THEN requireUser(user)
    ELSE getOwnedPage(ps, pgs, pageId, projectId, user)

----------------------------------------------------------------------------
(* The handlers                                                            *)
(*                                                                         *)
(* A handler maps the tables db = [projects, pages, panels] and its        *)
(* inputs to what it returns or throws and the tables it leaves.  uuid is  *)
(* what crypto.randomUUID() returns and t what new Date() returns.         *)

Db == [projects |-> projects, pages |-> pages, panels |-> panels]

\* code, message: OK, or the error thrown; items: the rows in data; total:
\* data.total of a list; rows: rows the handler's deletes affected.
Returned(db, items, total, rows) ==
    [code |-> "OK", message |-> "", db |-> db, items |-> items, total |-> total,
     rows |-> rows]
Thrown(db, error) ==
    [code |-> error.code, message |-> error.message, db |-> db, items |-> {},
     total |-> 0, rows |-> 0]

createProjectHandler(db, user, f, uuid, t) ==
    IF requireUser(user) # Ok THEN Thrown(db, requireUser(user))
    ELSE LET row == ProjectRow(uuid, user, f, t)
         IN  Returned([db EXCEPT !.projects = @ \cup {row}], {row}, 0, 0)

updateProjectHandler(db, user, id, f, t) ==
    LET guard == GuardProject(db.projects, id, user)
        after == UpdateProjectById(db.projects, id, f, t)
    IN  IF guard # Ok THEN Thrown(db, guard)
        ELSE Returned([db EXCEPT !.projects = after],
                      {p \in after : p.id = id}, 0, 0)

listProjectsHandler(db, user) ==
    IF requireUser(user) # Ok THEN Thrown(db, requireUser(user))
    ELSE LET found == SelectProjectsOfUser(db.projects, user)
         IN  Returned(db, found, Cardinality(found), 0)

createPageHandler(db, fk, user, projectId, f, uuid, t) ==
    LET guard == GuardProject(db.projects, projectId, user)
        row == PageRow(uuid, projectId, f, t)
    IN  IF guard # Ok THEN Thrown(db, guard)
        ELSE IF ~ PageInsertAllowed(fk, db.projects, projectId)
        THEN Thrown(db, ConstraintFailed)
        ELSE Returned([db EXCEPT !.pages = @ \cup {row}], {row}, 0, 0)

updatePageHandler(db, user, id, projectId, f, t) ==
    LET guard == GuardPage(db.projects, db.pages, id, projectId, user)
        after == UpdatePageById(db.pages, id, f, t)
    IN  IF guard # Ok THEN Thrown(db, guard)
        ELSE Returned([db EXCEPT !.pages = after], {g \in after : g.id = id}, 0, 0)

deletePageHandler(db, fk, user, id, projectId) ==
    LET guard == GuardPage(db.projects, db.pages, id, projectId, user)
        after == DeletePanelsOfPage(db.panels, id)
    IN  IF guard # Ok THEN Thrown(db, guard)
        ELSE IF ~ PageDeleteAllowed(fk, db.panels, id)
        THEN Thrown(db, ConstraintFailed)
        ELSE Returned([db EXCEPT !.pages = DeletePageById(@, id), !.panels = after],
                      {}, 0, RowsAffected(db.panels, after))

listPagesHandler(db, user, projectId) ==
    LET guard == GuardProject(db.projects, projectId, user)
        found == SelectPagesOfProject(db.pages, projectId)
    IN  IF guard # Ok THEN Thrown(db, guard)
        ELSE Returned(db, found, Cardinality(found), 0)

createPanelHandler(db, fk, user, pageId, projectId, f, uuid, t) ==
    LET guard == GuardPage(db.projects, db.pages, pageId, projectId, user)
        row == PanelRow(uuid, pageId, f, t)
    IN  IF guard # Ok THEN Thrown(db, guard)
        ELSE IF ~ PanelInsertAllowed(fk, db.pages, pageId)
        THEN Thrown(db, ConstraintFailed)
        ELSE Returned([db EXCEPT !.panels = @ \cup {row}], {row}, 0, 0)

updatePanelHandler(db, user, id, pageId, projectId, f) ==
    LET guard == GuardPage(db.projects, db.pages, pageId, projectId, user)
        after == UpdatePanelById(db.panels, id, f)
    IN  IF guard # Ok THEN Thrown(db, guard)
        ELSE IF SelectPanelById(db.panels, id) = {} THEN Thrown(db, PanelNotFound)
        ELSE Returned([db EXCEPT !.panels = after], SelectPanelById(after, id), 0, 0)

\* Faulty variant of deletePanelHandler: rowsAffected is not looked at, as in deletePage.
deletePanelUnchecked(db, user, id, pageId, projectId) ==
    LET guard == GuardPage(db.projects, db.pages, pageId, projectId, user)
        after == DeletePanelById(db.panels, id)
    IN  IF guard # Ok THEN Thrown(db, guard)
        ELSE Returned([db EXCEPT !.panels = after], {}, 0,
                      RowsAffected(db.panels, after))

deletePanelHandler(db, user, id, pageId, projectId) ==
    LET guard == GuardPage(db.projects, db.pages, pageId, projectId, user)
        after == DeletePanelById(db.panels, id)
    IN  IF guard # Ok THEN Thrown(db, guard)
        ELSE IF RowsAffected(db.panels, after) = 0 THEN Thrown(db, PanelNotFound)
        ELSE Returned([db EXCEPT !.panels = after], {}, 0,
                      RowsAffected(db.panels, after))

listPanelsHandler(db, user, pageId, projectId) ==
    LET guard == GuardPage(db.projects, db.pages, pageId, projectId, user)
        found == SelectPanelsOfPage(db.panels, pageId)
    IN  IF guard # Ok THEN Thrown(db, guard)
        ELSE Returned(db, found, Cardinality(found), 0)

----------------------------------------------------------------------------
(* One request at a time: each call runs its handler to completion         *)


Init ==
    /\ projects = {}
    /\ pages = {}
    /\ panels = {}
    /\ nextId = [project |-> 0, page |-> 0, panel |-> 0]
    /\ now = 0
    /\ fkEnforced \in BOOLEAN
    /\ updates = 0
    /\ reqs = EmptyBag

\* Time passes between calls.
Tick ==
    /\ now < MaxNow
    /\ now' = now + 1
    /\ UNCHANGED <<projects, pages, panels, nextId, fkEnforced, updates, reqs>>

\* The tables after a handler ended as r.
Done(r) ==
    /\ projects' = r.db.projects
    /\ pages' = r.db.pages
    /\ panels' = r.db.panels
    /\ UNCHANGED <<now, fkEnforced, reqs>>

\* A call that draws no id and is no update.
Plain(r) ==
    /\ Done(r)
    /\ UNCHANGED <<nextId, updates>>

\* A create: the id it draws is used up when the row is inserted.
Creating(table, r) ==
    /\ Done(r)
    /\ nextId' = IF r.code = "OK" THEN [nextId EXCEPT ![table] = @ + 1] ELSE nextId
    /\ UNCHANGED updates

\* An update: at most MaxUpdates of them succeed.
Updating(r) ==
    /\ r.code = "OK" => updates < MaxUpdates
    /\ Done(r)
    /\ updates' = IF r.code = "OK" THEN updates + 1 ELSE updates
    /\ UNCHANGED nextId

createProject(user, f) ==
    /\ user # NoUser => nextId.project + 1 \in ProjectIds
    /\ Creating("project", createProjectHandler(Db, user, f, nextId.project + 1, now))

updateProject(user, id, f) ==
    Updating(updateProjectHandler(Db, user, id, f, now))

listProjects(user) == Plain(listProjectsHandler(Db, user))

createPage(user, projectId, f) ==
    LET r == createPageHandler(Db, fkEnforced, user, projectId, f, nextId.page + 1, now)
    IN  /\ r.code = "OK" => nextId.page + 1 \in PageIds
        /\ Creating("page", r)

updatePage(user, id, projectId, f) ==
    Updating(updatePageHandler(Db, user, id, projectId, f, now))

deletePage(user, id, projectId) ==
    Plain(deletePageHandler(Db, fkEnforced, user, id, projectId))

listPages(user, projectId) ==
    Plain(listPagesHandler(Db, user, projectId))

createPanel(user, pageId, projectId, f) ==
    LET r == createPanelHandler(Db, fkEnforced, user, pageId, projectId, f,
                                nextId.panel + 1, now)
    IN  /\ r.code = "OK" => nextId.panel + 1 \in PanelIds
        /\ Creating("panel", r)

updatePanel(user, id, pageId, projectId, f) ==
    Updating(updatePanelHandler(Db, user, id, pageId, projectId, f))

deletePanel(user, id, pageId, projectId) ==
    Plain(deletePanelHandler(Db, user, id, pageId, projectId))

listPanels(user, pageId, projectId) ==
    Plain(listPanelsHandler(Db, user, pageId, projectId))

\* The ids a caller supplies: requireUser throws before any id is read, so a
\* call without a user is made with one choice of them.
IdsOf(user, ids) == IF user = NoUser THEN {1} ELSE ids

Next ==
    \/ Tick
    \/ \E u \in Callers, f \in AllKeys(CreateProjectInputs) : createProject(u, f)
    \/ \E u \in Callers, f \in Only(UpdateProjectInputs, "title") :
          \E id \in IdsOf(u, ProjectIds) : updateProject(u, id, f)
    \/ \E u \in Callers : listProjects(u)
    \/ \E u \in Callers, f \in AllKeys(CreatePageInputs) :
          \E pr \in IdsOf(u, ProjectIds) : createPage(u, pr, f)
    \/ \E u \in Callers, f \in Only(UpdatePageInputs, "pageNumber") :
          \E id \in IdsOf(u, PageIds), pr \in IdsOf(u, ProjectIds) :
             updatePage(u, id, pr, f)
    \/ \E u \in Callers :
          \E id \in IdsOf(u, PageIds), pr \in IdsOf(u, ProjectIds) :
             deletePage(u, id, pr)
    \/ \E u \in Callers : \E pr \in IdsOf(u, ProjectIds) : listPages(u, pr)
    \/ \E u \in Callers, f \in AllKeys(CreatePanelInputs) :
          \E pg \in IdsOf(u, PageIds), pr \in IdsOf(u, ProjectIds) :
             createPanel(u, pg, pr, f)
    \/ \E u \in Callers, f \in Only(UpdatePanelInputs, "panelIndex") :
          \E id \in IdsOf(u, PanelIds), pg \in IdsOf(u, PageIds),
             pr \in IdsOf(u, ProjectIds) : updatePanel(u, id, pg, pr, f)
    \/ \E u \in Callers :
          \E id \in IdsOf(u, PanelIds), pg \in IdsOf(u, PageIds),
             pr \in IdsOf(u, ProjectIds) : deletePanel(u, id, pg, pr)
    \/ \E u \in Callers :
          \E pg \in IdsOf(u, PageIds), pr \in IdsOf(u, ProjectIds) :
             listPanels(u, pg, pr)

Spec == Init /\ [][Next]_vars

----------------------------------------------------------------------------
(* Concurrent requests: a handler runs up to its next awaited store        *)
(* statement, the store executes the statements one at a time, and the     *)
(* handlers of other requests run in between.                              *)
(*                                                                         *)
(* A request in flight is kept as the statement it waits for (pc) and the  *)
(* inputs its handler still reads from there on.                           *)

ProjectOps == {"updateProject", "createPage", "listPages"}
PageOps == {"updatePage", "deletePage", "createPanel", "updatePanel",
            "deletePanel", "listPanels"}
PanelOps == {"updatePanel", "deletePanel"}

\* The inputs with the fewest keys.
FewestKeys(inputs) == {f \in inputs : \A g \in inputs : DOMAIN f \subseteq DOMAIN g}

Waiting(op, pc, id, pageId, projectId) ==
    [op |-> op, pc |-> pc, id |-> id, pageId |-> pageId, projectId |-> projectId]

Await(req) == reqs' = reqs (+) SetToBag({req})
Resume(req, next) == reqs' = (reqs (-) SetToBag({req})) (+) SetToBag({next})
End(req) == reqs' = reqs (-) SetToBag({req})

\* A request arrives: requireUser, then the handler's first statement, which is
\* the statement of createProject and listProjects.  For the others it is
\* getOwnedProject's select, and getOwnedPage's select of the page runs with it:
\* the first reads only id and userId of ComicProjects, which no statement
\* changes or deletes, so it returns the same whenever it runs before the second.
Begin(op, user, id, pageId, projectId) ==
    /\ BagCardinality(reqs) < MaxRequests
    /\ UNCHANGED <<now, fkEnforced, updates, pages, panels>>
    /\ IF requireUser(user) # Ok
       THEN UNCHANGED <<projects, nextId, reqs>>
       ELSE IF op = "createProject"
       THEN /\ nextId.project + 1 \in ProjectIds
            /\ \E f \in FewestKeys(CreateProjectInputs) :
                  projects' = projects \cup
                      {ProjectRow(nextId.project + 1, user, f, now)}
            /\ nextId' = [nextId EXCEPT !.project = @ + 1]
            /\ UNCHANGED reqs
       ELSE IF op = "listProjects"
       THEN UNCHANGED <<projects, nextId, reqs>>
       ELSE /\ UNCHANGED <<projects, nextId>>
            /\ IF op \in ProjectOps
               THEN IF getOwnedProject(projects, projectId, user) # Ok
                    THEN UNCHANGED reqs
                    ELSE Await(Waiting(op, "write", 0, 0, projectId))
               ELSE IF getOwnedPage(projects, pages, pageId, projectId, user) # Ok
                    THEN UNCHANGED reqs
                    ELSE Await(Waiting(op,
                                       IF op = "updatePanel" THEN "existing" ELSE "write",
                                       IF op \in PanelOps THEN id ELSE 0, pageId, 0))

\* updatePanel's select of the panel by id.
ExistingSelect(req) ==
    /\ req.pc = "existing"
    /\ UNCHANGED <<projects, pages, panels, nextId, now, fkEnforced, updates>>
    /\ IF SelectPanelById(panels, req.id) = {}
       THEN End(req)
       ELSE Resume(req, [req EXCEPT !.pc = "write"])

\* The insert of createPage and of createPanel; a store that enforces the
\* references rejects a row whose parent is gone.
InsertStatement(req) ==
    /\ req.pc = "write"
    /\ req.op \in {"createPage", "createPanel"}
    /\ End(req)
    /\ UNCHANGED <<projects, now, fkEnforced, updates>>
    /\ IF req.op = "createPage"
       THEN /\ UNCHANGED panels
            /\ IF PageInsertAllowed(fkEnforced, projects, req.projectId)
               THEN /\ nextId.page + 1 \in PageIds
                    /\ \E f \in FewestKeys(CreatePageInputs) :
                          pages' = pages \cup
                              {PageRow(nextId.page + 1, req.projectId, f, now)}
                    /\ nextId' = [nextId EXCEPT !.page = @ + 1]
               ELSE UNCHANGED <<pages, nextId>>
       ELSE /\ UNCHANGED pages
            /\ IF PanelInsertAllowed(fkEnforced, pages, req.pageId)
               THEN /\ nextId.panel + 1 \in PanelIds
                    /\ \E f \in FewestKeys(CreatePanelInputs) :
                          panels' = panels \cup
                              {PanelRow(nextId.panel + 1, req.pageId, f, now)}
                    /\ nextId' = [nextId EXCEPT !.panel = @ + 1]
               ELSE UNCHANGED <<panels, nextId>>

\* The update of updateProject, updatePage and updatePanel.  The payloads
\* resubmit the value the row was created with, so that the updates of
\* concurrent requests need no bound.
UpdateStatement(req) ==
    /\ req.pc = "write"
    /\ req.op \in {"updateProject", "updatePage", "updatePanel"}
    /\ End(req)
    /\ UNCHANGED <<nextId, now, fkEnforced, updates>>
    /\ IF req.op = "updateProject"
       THEN /\ projects' = UpdateProjectById(projects, req.projectId,
                                             [title |-> "a"], now)
            /\ UNCHANGED <<pages, panels>>
       ELSE IF req.op = "updatePage"
       THEN /\ pages' = UpdatePageById(pages, req.pageId, [pageNumber |-> 1], now)
            /\ UNCHANGED <<projects, panels>>
       ELSE /\ panels' = UpdatePanelById(panels, req.id, [panelIndex |-> 0])
            /\ UNCHANGED <<projects, pages>>

\* The select of listPages and of listPanels.
ListStatement(req) ==
    /\ req.pc = "write"
    /\ req.op \in {"listPages", "listPanels"}
    /\ End(req)
    /\ UNCHANGED <<projects, pages, panels, nextId, now, fkEnforced, updates>>

\* deletePanel's delete by id (it throws afterwards when no row was affected).
DeletePanelStatement(req) ==
    /\ req.pc = "write"
    /\ req.op = "deletePanel"
    /\ panels' = DeletePanelById(panels, req.id)
    /\ End(req)
    /\ UNCHANGED <<projects, pages, nextId, now, fkEnforced, updates>>

\* deletePage's first statement, the delete of the page; a store that enforces
\* the references rejects it while panels refer to the page.
DeletePageStatement(req) ==
    /\ req.pc = "write"
    /\ req.op = "deletePage"
    /\ UNCHANGED <<projects, panels, nextId, now, fkEnforced, updates>>
    /\ IF PageDeleteAllowed(fkEnforced, panels, req.pageId)
       THEN /\ pages' = DeletePageById(pages, req.pageId)
            /\ Resume(req, [req EXCEPT !.pc = "panels"])
       ELSE /\ UNCHANGED pages
            /\ End(req)

\* deletePage's second statement, the delete of the page's panels.
DeletePanelsStatement(req) ==
    /\ req.pc = "panels"
    /\ panels' = DeletePanelsOfPage(panels, req.pageId)
    /\ End(req)
    /\ UNCHANGED <<projects, pages, nextId, now, fkEnforced, updates>>

Ops == {"createProject", "listProjects"} \cup ProjectOps \cup PageOps

ConcNext ==
    \/ \E op \in Ops, u \in Callers :
          \E id \in IdsOf(u, PanelIds), pg \in IdsOf(u, PageIds),
             pr \in IdsOf(u, ProjectIds) : Begin(op, u, id, pg, pr)
    \/ \E req \in BagToSet(reqs) : ExistingSelect(req)
    \/ \E req \in BagToSet(reqs) : InsertStatement(req)
    \/ \E req \in BagToSet(reqs) : UpdateStatement(req)
    \/ \E req \in BagToSet(reqs) : ListStatement(req)
    \/ \E req \in BagToSet(reqs) : DeletePanelStatement(req)
    \/ \E req \in BagToSet(reqs) : DeletePageStatement(req)
    \/ \E req \in BagToSet(reqs) : DeletePanelsStatement(req)

ConcSpec == Init /\ [][ConcNext]_vars

----------------------------------------------------------------------------
(* What the claims are stated in                                           *)

Owns(db, user, projectId) ==
    \E p \in db.projects : p.id = projectId /\ p.userId = user
PageUnder(db, pageId, projectId) ==
    \E g \in db.pages : g.id = pageId /\ g.projectId = projectId
PageExists(db, pageId) == \E g \in db.pages : g.id = pageId
PanelExists(db, id) == \E n \in db.panels : n.id = id

\* The ids the tables have handed out whose row is gone.
DeletedPages == {id \in 1..nextId.page : ~ PageExists(Db, id)}
DeletedPanels == {id \in 1..nextId.panel : ~ PanelExists(Db, id)}

\* P holds of the result of every call of the handlers that resolve a project,
\* made by user with projectId on the tables as they are.
EveryProjectScoped(user, projectId, P(_)) ==
    /\ \A f \in UpdateProjectInputs :
          P(updateProjectHandler(Db, user, projectId, f, now))
    /\ \A f \in CreatePageInputs :
          P(createPageHandler(Db, fkEnforced, user, projectId, f, nextId.page + 1, now))
    /\ P(listPagesHandler(Db, user, projectId))

\* The same for the handlers that resolve a page under a project.
EveryPageScoped(user, id, pageId, projectId, P(_)) ==
    /\ \A f \in UpdatePageInputs :
          P(updatePageHandler(Db, user, pageId, projectId, f, now))
    /\ P(deletePageHandler(Db, fkEnforced, user, pageId, projectId))
    /\ \A f \in CreatePanelInputs :
          P(createPanelHandler(Db, fkEnforced, user, pageId, projectId, f,
                               nextId.panel + 1, now))
    /\ \A f \in UpdatePanelInputs :
          P(updatePanelHandler(Db, user, id, pageId, projectId, f))
    /\ P(deletePanelHandler(Db, user, id, pageId, projectId))
    /\ P(listPanelsHandler(Db, user, pageId, projectId))

\* The same for all eleven handlers.
EveryCall(user, id, pageId, projectId, P(_)) ==
    /\ \A f \in CreateProjectInputs :
          P(createProjectHandler(Db, user, f, nextId.project + 1, now))
    /\ P(listProjectsHandler(Db, user))
    /\ EveryProjectScoped(user, projectId, P)
    /\ EveryPageScoped(user, id, pageId, projectId, P)

----------------------------------------------------------------------------
(* C2: a call without a user ends in UNAUTHORIZED, whatever the handler    *)
(* and its inputs, and leaves the three tables as they were.               *)

RefusedUnauthorized(r) == r.code = "UNAUTHORIZED" /\ r.db = Db

C2_UnauthenticatedRefused ==
    \A id \in PanelIds, pageId \in PageIds, projectId \in ProjectIds :
        EveryCall(NoUser, id, pageId, projectId, RefusedUnauthorized)

\* A call without a user on a panel that its owner could delete.
C2_Witness ==
    \E u \in Users, id \in PanelIds, pageId \in PageIds, projectId \in ProjectIds :
        /\ deletePanelHandler(Db, u, id, pageId, projectId).code = "OK"
        /\ deletePanelHandler(Db, NoUser, id, pageId, projectId).code = "UNAUTHORIZED"

----------------------------------------------------------------------------
(* C3: for a signed-in caller and a projectId that is not the id of a      *)
(* project of theirs, every handler that resolves the project throws       *)
(* NOT_FOUND and leaves the tables as they were; what is thrown is the     *)
(* same whether the project is another user's or does not exist.           *)

RefusedProjectNotFound(r) ==
    /\ r.code = "NOT_FOUND"
    /\ r.message = "Project not found."
    /\ r.db = Db

C3_UnownedProjectNotFound ==
    \A u \in Users, projectId \in ProjectIds :
        ~ Owns(Db, u, projectId) =>
            \A id \in PanelIds, pageId \in PageIds :
                /\ EveryProjectScoped(u, projectId, RefusedProjectNotFound)
                /\ EveryPageScoped(u, id, pageId, projectId, RefusedProjectNotFound)

\* A caller, a project of another user with a page and a panel, and a project
\* id that is the id of no row: the calls on both are refused.
C3_Witness ==
    \E u \in Users, other \in Users, id \in PanelIds, pageId \in PageIds,
       theirs \in ProjectIds, none \in ProjectIds :
        /\ other # u
        /\ Owns(Db, other, theirs)
        /\ PageUnder(Db, pageId, theirs)
        /\ \E n \in panels : n.id = id /\ n.pageId = pageId
        /\ \A p \in projects : p.id # none
        /\ updatePanelHandler(Db, u, id, pageId, theirs, [dialogue |-> "b"])
              = Thrown(Db, ProjectNotFound)
        /\ updatePanelHandler(Db, u, id, pageId, none, [dialogue |-> "b"])
              = Thrown(Db, ProjectNotFound)

----------------------------------------------------------------------------
(* C4: when the page exists but under another project than the supplied    *)
(* one, every handler that resolves the page throws NOT_FOUND and changes  *)
(* no row, also when the caller owns both projects.                        *)

RefusedNotFound(r) == r.code = "NOT_FOUND" /\ r.db = Db

C4_PageOfOtherProjectNotFound ==
    \A u \in Users, id \in PanelIds, pageId \in PageIds, projectId \in ProjectIds :
        (PageExists(Db, pageId) /\ ~ PageUnder(Db, pageId, projectId)) =>
            EveryPageScoped(u, id, pageId, projectId, RefusedNotFound)

\* The caller owns both projects, the page is under one and has a panel, and
\* the call names the other.
C4_Witness ==
    \E u \in Users, id \in PanelIds, pageId \in PageIds,
       named \in ProjectIds, real \in ProjectIds :
        /\ named # real
        /\ Owns(Db, u, named)
        /\ Owns(Db, u, real)
        /\ PageUnder(Db, pageId, real)
        /\ \E n \in panels : n.id = id /\ n.pageId = pageId
        /\ deletePanelHandler(Db, u, id, pageId, real).code = "OK"
        /\ deletePanelHandler(Db, u, id, pageId, named) = Thrown(Db, PageNotFound)

----------------------------------------------------------------------------
(* C1: an updatePanel or deletePanel that succeeds has changed or removed  *)
(* only a panel whose pageId is the supplied pageId, of a page under the   *)
(* supplied project, which the caller owns: no caller changes or deletes   *)
(* a panel under another user's project.                                   *)

\* The panels of db that a handler changed or removed: those not in r.db as
\* they were.
Touched(r) == {n \in panels : n \notin r.db.panels}

InChain(u, n, pageId, projectId) ==
    /\ n.pageId = pageId
    /\ PageUnder(Db, pageId, projectId)
    /\ Owns(Db, u, projectId)
    /\ \A g \in pages : g.id = n.pageId => Owns(Db, u, g.projectId)

C1_PanelWritesStayInChain ==
    \A u \in Users, id \in PanelIds, pageId \in PageIds, projectId \in ProjectIds :
        /\ \A f \in UpdatePanelInputs :
              LET r == updatePanelHandler(Db, u, id, pageId, projectId, f)
              IN  r.code = "OK" =>
                     \A n \in Touched(r) : InChain(u, n, pageId, projectId)
        /\ LET r == deletePanelHandler(Db, u, id, pageId, projectId)
           IN  r.code = "OK" => \A n \in Touched(r) : InChain(u, n, pageId, projectId)

----------------------------------------------------------------------------
(* C5: a deletePage that succeeds leaves no page with the id and no panel  *)
(* of that page, and every other page, every panel of another page and     *)
(* every project as it was.                                                *)

C5_DeletePageCascades ==
    \A u \in Users, id \in PageIds, projectId \in ProjectIds :
        LET r == deletePageHandler(Db, fkEnforced, u, id, projectId)
        IN  r.code = "OK" =>
               /\ ~ PageExists(r.db, id)
               /\ \A n \in r.db.panels : n.pageId # id
               /\ \A g \in pages : g.id # id => g \in r.db.pages
               /\ \A n \in panels : n.pageId # id => n \in r.db.panels
               /\ r.db.pages \subseteq pages
               /\ r.db.panels \subseteq panels
               /\ r.db.projects = projects

\* A deletePage that removes the page and its panels and leaves another page
\* with a panel.
C5_Witness ==
    \E u \in Users, id \in PageIds, projectId \in ProjectIds :
        LET r == deletePageHandler(Db, fkEnforced, u, id, projectId)
        IN  /\ r.code = "OK"
            /\ r.rows > 0
            /\ r.db.pages # {}
            /\ r.db.panels # {}

----------------------------------------------------------------------------
(* C6 as claimed: after a deletePage that succeeded, listPanels by the     *)
(* same caller with the page's id and the same projectId returns no        *)
(* panels, items empty and total 0.                                        *)

C6_ListAfterDeleteIsEmpty ==
    \A u \in Users, id \in PageIds, projectId \in ProjectIds :
        LET r == deletePageHandler(Db, fkEnforced, u, id, projectId)
        IN  r.code = "OK" =>
               listPanelsHandler(r.db, u, id, projectId) = Returned(r.db, {}, 0, 0)

(* C6 as amended: after a deletePage that succeeded, listPanels by the     *)
(* same caller with the page's id and the same projectId throws NOT_FOUND, *)
(* Page not found, then and ever after; no panel of that page is left.     *)

C6_ListAfterDeleteNotFound ==
    /\ \A u \in Users, id \in PageIds, projectId \in ProjectIds :
          LET r == deletePageHandler(Db, fkEnforced, u, id, projectId)
          IN  r.code = "OK" =>
                 /\ listPanelsHandler(r.db, u, id, projectId)
                       = Thrown(r.db, PageNotFound)
                 /\ \A n \in r.db.panels : n.pageId # id
    /\ \A id \in DeletedPages :
          /\ \A n \in panels : n.pageId # id
          /\ \A u \in Users, projectId \in ProjectIds :
                Owns(Db, u, projectId) =>
                   listPanelsHandler(Db, u, id, projectId) = Thrown(Db, PageNotFound)

\* A page that had a panel has been deleted, and its owner lists its panels.
C6_Witness ==
    \E id \in DeletedPages, u \in Users, projectId \in ProjectIds :
        /\ DeletedPanels # {}
        /\ Owns(Db, u, projectId)
        /\ listPanelsHandler(Db, u, id, projectId).code = "NOT_FOUND"

----------------------------------------------------------------------------
(* C7: for a caller whose pageId and projectId resolve, deletePanel with   *)
(* an id of no panel throws NOT_FOUND and changes nothing; with the id of  *)
(* a panel it succeeds, and no listPanels returns that panel afterwards.   *)

Listed(db) ==
    UNION {listPanelsHandler(db, u, pageId, projectId).items :
              u \in Users, pageId \in PageIds, projectId \in ProjectIds}

C7_DeletePanel ==
    /\ \A u \in Users, id \in PanelIds, pageId \in PageIds, projectId \in ProjectIds :
          (Owns(Db, u, projectId) /\ PageUnder(Db, pageId, projectId)) =>
             LET r == deletePanelHandler(Db, u, id, pageId, projectId)
             IN  IF PanelExists(Db, id)
                 THEN /\ r.code = "OK"
                      /\ \A n \in Listed(r.db) : n.id # id
                 ELSE r = Thrown(Db, PanelNotFound)
    /\ \A n \in Listed(Db) : n.id \notin DeletedPanels

\* A panel has been deleted while its page stayed, another can be, and the
\* same call with the deleted one's id is refused.
C7_Witness ==
    \E u \in Users, id \in PanelIds, gone \in DeletedPanels, pageId \in PageIds,
       projectId \in ProjectIds :
        /\ DeletedPages = {}
        /\ deletePanelHandler(Db, u, id, pageId, projectId).code = "OK"
        /\ deletePanelHandler(Db, u, gone, pageId, projectId) = Thrown(Db, PanelNotFound)

----------------------------------------------------------------------------
(* C8: an update that succeeds changes in the row with the id only the     *)
(* columns its input supplies (and updatedAt, for projects and pages);     *)
(* every other column of the row and every other row of any table stays.   *)

\* after is before with, in the row with the id, at most the columns of f and
\* those of stamps changed.
OnlySupplied(before, after, id, f, stamps) ==
    /\ Cardinality(after) = Cardinality(before)
    /\ \A row \in before :
          IF row.id # id THEN row \in after
          ELSE \E new \in after :
                  /\ DOMAIN new = DOMAIN row
                  /\ \A k \in DOMAIN row \ (DOMAIN f \cup stamps) : new[k] = row[k]

C8_UpdateChangesOnlySupplied ==
    /\ \A u \in Users, id \in ProjectIds, f \in UpdateProjectInputs :
          LET r == updateProjectHandler(Db, u, id, f, now)
          IN  r.code = "OK" =>
                 /\ OnlySupplied(projects, r.db.projects, id, f, {"updatedAt"})
                 /\ r.db.pages = pages
                 /\ r.db.panels = panels
    /\ \A u \in Users, id \in PageIds, projectId \in ProjectIds,
          f \in UpdatePageInputs :
          LET r == updatePageHandler(Db, u, id, projectId, f, now)
          IN  r.code = "OK" =>
                 /\ OnlySupplied(pages, r.db.pages, id, f, {"updatedAt"})
                 /\ r.db.projects = projects
                 /\ r.db.panels = panels
    /\ \A u \in Users, id \in PanelIds, pageId \in PageIds, projectId \in ProjectIds,
          f \in UpdatePanelInputs :
          LET r == updatePanelHandler(Db, u, id, pageId, projectId, f)
          IN  r.code = "OK" =>
                 /\ OnlySupplied(panels, r.db.panels, id, f, {})
                 /\ r.db.projects = projects
                 /\ r.db.pages = pages

\* An updateProject with only a title has run, later than the project was
\* created, next to another project; a page and a panel can be updated too.
C8_Witness ==
    /\ updates > 0
    /\ \E p \in projects, q \in projects :
          /\ p.id # q.id
          /\ p.title = "b"
          /\ p.description = "a"
          /\ p.updatedAt > p.createdAt
    /\ \E g \in pages : g.createdAt < now
    /\ panels # {}

----------------------------------------------------------------------------
(* C10: a list that succeeds returns exactly the rows of its scope, which  *)
(* is the caller's: listProjects the caller's projects, listPages the      *)
(* pages of the given project of the caller, listPanels the panels of the  *)
(* given page of a project of the caller; total is the number of items.    *)

C10_ListsReturnTheScope ==
    /\ \A u \in Users :
          LET r == listProjectsHandler(Db, u)
          IN  /\ r.code = "OK"
              /\ r.items = {p \in projects : p.userId = u}
              /\ r.total = Cardinality(r.items)
    /\ \A u \in Users, projectId \in ProjectIds :
          LET r == listPagesHandler(Db, u, projectId)
          IN  r.code = "OK" =>
                 /\ Owns(Db, u, projectId)
                 /\ r.items = {g \in pages : g.projectId = projectId}
                 /\ r.total = Cardinality(r.items)
    /\ \A u \in Users, pageId \in PageIds, projectId \in ProjectIds :
          LET r == listPanelsHandler(Db, u, pageId, projectId)
          IN  r.code = "OK" =>
                 /\ Owns(Db, u, projectId)
                 /\ PageUnder(Db, pageId, projectId)
                 /\ r.items = {n \in panels : n.pageId = pageId}
                 /\ r.total = Cardinality(r.items)

\* Two users with a project each, each with a page with a panel: every list of
\* one of them returns a row, and not the other's.
C10_Witness ==
    \E u \in Users, pageId \in PageIds, projectId \in ProjectIds :
        /\ listProjectsHandler(Db, u).total = 1
        /\ Cardinality(projects) = 2
        /\ listPagesHandler(Db, u, projectId).total = 1
        /\ Cardinality(pages) = 2
        /\ listPanelsHandler(Db, u, pageId, projectId).total = 1
        /\ Cardinality(panels) = 2

----------------------------------------------------------------------------
(* C9: with the handlers of concurrent requests interleaved between their  *)
(* store statements, whenever no handler is in progress every panel's      *)
(* pageId is the id of a page and every page's projectId the id of a       *)
(* project.                                                                *)

ReferentialIntegrity ==
    /\ \A n \in panels : PageExists(Db, n.pageId)
    /\ \A g \in pages : \E p \in projects : p.id = g.projectId

====
